---- MODULE Spec2Model ----
(***************************************************************************)
(* The shortcode pipeline of builder.js: scanning bracket tokens in text,  *)
(* materializing them as shortcode-block placeholders, hydrating them      *)
(* through debounced POST /shortcode/render calls, and serializing them    *)
(* back to bracket-token text on save.                                     *)
(*                                                                         *)
(* Strings are sequences of symbols.  A symbol is one character ("[", "]", *)
(* " ", ":", ",", "=", "<") or a run of characters that the regular        *)
(* expressions of the source treat alike ("property", "Loading ", ...).    *)
(***************************************************************************)
EXTENDS Integers, Sequences, FiniteSets, TLC

\* ------------------------------------------------------------------ bounds
\* longest input text of the text-transform specification
MaxLen == 6

\* --------------------------------------------------------------- alphabet
\* symbols matched by [a-zA-Z] (they can open an HTML tag after "<")
Letters == {"x", "y", "a", "property", "limit", "your_shortcode_here",
            "Intro", "outro", "Value", "object", "title", "max", "price",
            "X", "Hello", "World"}
\* symbols matched by [0-9]
Digits == {"1", "2", "3", "4"}
\* the character class \w of parseAttrs
WChars == Letters \cup Digits \cup {"_"}
\* the character class [a-zA-Z0-9_-] of deserializeShortcodes and renderShortcodesOnLoad
WordChars == WChars \cup {"-"}
\* the character class [a-zA-Z0-9_:-] of extractShortcodeName
NameChars == WordChars \cup {":"}
\* the character class \s
Space == {" "}

Empty == << >>

\* ---------------------------------------------------------- regex helpers
RECURSIVE RunEnd(_, _, _)
\* last index of the maximal run of symbols of cls that starts at i (i-1: no run)
RunEnd(s, i, cls) ==
  IF i <= Len(s) /\ s[i] \in cls THEN RunEnd(s, i + 1, cls) ELSE i - 1

RECURSIVE FirstClose(_, _)
\* index of the first "]" at or after i, 0 when there is none
FirstClose(s, i) ==
  IF i > Len(s) THEN 0
  ELSE IF s[i] = "]" THEN i
  ELSE FirstClose(s, i + 1)

\* /\[([a-zA-Z0-9_:-]+)(\s[^\]]*)?\]/
ReExtract == [name |-> NameChars, loose |-> FALSE]
\* /\[([a-zA-Z0-9_-]+)(?:\s+([^\]]*))?\]/g
ReDeserialize == [name |-> WordChars, loose |-> FALSE]
\* /\[([a-zA-Z0-9_-]+)([^\]]*)\]/g
ReOnLoad == [name |-> WordChars, loose |-> TRUE]

\* index of the last symbol of the match of re that starts at i, 0 when none
MatchEnd(re, s, i) ==
  IF i > Len(s) \/ s[i] # "[" THEN 0
  ELSE LET n == RunEnd(s, i + 1, re.name) IN
       IF n < i + 1 THEN 0
       ELSE IF re.loose THEN FirstClose(s, n + 1)
       ELSE IF n + 1 <= Len(s) /\ s[n + 1] = "]" THEN n + 1
       ELSE IF n + 1 <= Len(s) /\ s[n + 1] \in Space THEN FirstClose(s, n + 2)
       ELSE 0

\* capture group 1 of the match of re that starts at i
MatchName(re, s, i) == SubSeq(s, i + 1, RunEnd(s, i + 1, re.name))

RECURSIVE NextMatch(_, _, _)
\* start of the leftmost match of re at or after i (regex.exec from lastIndex), 0 when none
NextMatch(re, s, i) ==
  IF i > Len(s) THEN 0
  ELSE IF MatchEnd(re, s, i) > 0 THEN i
  ELSE NextMatch(re, s, i + 1)

RECURSIVE AllMatches(_, _, _)
\* the matched substrings of re in s, left to right, as the exec loop yields them
AllMatches(re, s, i) ==
  LET m == NextMatch(re, s, i) IN
  IF m = 0 THEN << >>
  ELSE <<SubSeq(s, m, MatchEnd(re, s, m))>> \o AllMatches(re, s, MatchEnd(re, s, m) + 1)

Has(s, c) == \E i \in 1..Len(s) : s[i] = c

RECURSIVE TrimLeft(_)
TrimLeft(s) == IF s # Empty /\ Head(s) \in Space THEN TrimLeft(Tail(s)) ELSE s
RECURSIVE TrimRight(_)
TrimRight(s) ==
  IF s # Empty /\ s[Len(s)] \in Space THEN TrimRight(SubSeq(s, 1, Len(s) - 1)) ELSE s
\* String.prototype.trim
Trim(s) == TrimRight(TrimLeft(s))

\* extractShortcodeName: the name of the first token of content, Empty for null
extractShortcodeName(content) ==
  LET m == NextMatch(ReExtract, content, 1) IN
  IF content = Empty \/ m = 0 THEN Empty ELSE MatchName(ReExtract, content, m)

\* ------------------------------------------------------------- DOM helpers
\* A node is a text node or a shortcode-block element.  A block carries its
\* data-shortcode and data-shortcode-original attributes (Empty: absent) and
\* its inner content: kind "text" (raw text), "loading", "html" (markup the
\* server returned for str), "notfound" or "error", each about the string str.
NoContent == [kind |-> "text", str |-> Empty]
TextNode(s) == [type |-> "text", text |-> s, name |-> Empty, original |-> Empty,
                inner |-> NoContent]
BlockNode(name, original, inner) ==
  [type |-> "block", text |-> Empty, name |-> name, original |-> original,
   inner |-> inner]

Loading(s) == [kind |-> "loading", str |-> s]
Rendered(s) == [kind |-> "html", str |-> s]
NotFound(s) == [kind |-> "notfound", str |-> s]
ErrorLoading(s) == [kind |-> "error", str |-> s]
RawText(s) == [kind |-> "text", str |-> s]

RECURSIVE TagOpen(_, _)
\* index of the first "<" that the HTML tokenizer reads as the start of a tag
\* ("<" followed by an ASCII letter), 0 when there is none
TagOpen(s, i) ==
  IF i >= Len(s) THEN 0
  ELSE IF s[i] = "<" /\ s[i + 1] \in Letters THEN i
  ELSE TagOpen(s, i + 1)

\* character references of the markup source decoded into text
Decode(s) == [i \in 1..Len(s) |-> IF s[i] = "&lt;" THEN "<" ELSE s[i]]
\* text escaped as the innerHTML getter escapes it
Escape(s) == [i \in 1..Len(s) |-> IF s[i] = "<" THEN "&lt;" ELSE s[i]]

\* The text that parsing the markup source s yields (innerHTML and outerHTML
\* setters).  The alphabet has no ">", so a tag that opens never closes and the
\* tokenizer drops it together with everything after it (eof-in-tag).
ParseText(s) ==
  LET t == TagOpen(s, 1) IN
  Decode(IF t = 0 THEN s ELSE SubSeq(s, 1, t - 1))

\* the nodes that parsing a tag-free markup source yields
ParseNodes(s) == IF ParseText(s) = Empty THEN << >> ELSE <<TextNode(ParseText(s))>>

\* el.innerText of a block with the given inner content
InnerText(c) ==
  CASE c.kind = "text" -> c.str
    [] c.kind = "loading" -> <<"Loading ">> \o c.str \o <<"...">>
    [] c.kind = "notfound" -> c.str \o <<" not found">>
    [] c.kind = "error" -> <<"Error loading ">> \o c.str
    [] OTHER -> <<"html">>

\* markup of the inner content of a block
ContentHTML(c) ==
  CASE c.kind = "text" -> Escape(c.str)
    [] c.kind = "loading" -> <<"<div gray>">> \o Escape(InnerText(c)) \o <<"</div>">>
    [] c.kind = "notfound" -> <<"<div gray>">> \o Escape(InnerText(c)) \o <<"</div>">>
    [] c.kind = "error" -> <<"<div red>">> \o Escape(InnerText(c)) \o <<"</div>">>
    [] OTHER -> <<"<rendered>">> \o Escape(c.str) \o <<"</rendered>">>

\* symbols of a markup source that are element markup, not text
MarkupSyms == {"<div shortcode-block>", "</div>", "<div gray>", "<div red>",
               "<rendered>", "</rendered>"}

RECURSIVE InnerHTML(_)
\* the innerHTML getter: the markup source of a list of nodes
InnerHTML(nodes) ==
  IF nodes = << >> THEN Empty
  ELSE LET n == Head(nodes) IN
       (IF n.type = "text" THEN Escape(n.text)
        ELSE <<"<div shortcode-block>">> \o ContentHTML(n.inner) \o <<"</div>">>)
       \o InnerHTML(Tail(nodes))

\* -------------------------------------------------- deserializeShortcodes
\* the shortcode-block div created for one match
ShortcodeDiv(match, name) == BlockNode(Empty, match, Loading(name))

RECURSIVE ReplaceTokensNoRest(_, _)
\* an exec loop that forgets the text after the last match (not the code's)
ReplaceTokensNoRest(text, pos) ==
  LET m == NextMatch(ReDeserialize, text, pos) IN
  IF m = 0 THEN << >>
  ELSE LET e == MatchEnd(ReDeserialize, text, m) IN
       (IF m > pos THEN <<TextNode(SubSeq(text, pos, m - 1))>> ELSE << >>)
       \o <<ShortcodeDiv(SubSeq(text, m, e), MatchName(ReDeserialize, text, m))>>
       \o ReplaceTokensNoRest(text, e + 1)

RECURSIVE ReplaceTokensFrom(_, _)
\* the exec loop over one text node, lastIndex = pos - 1
ReplaceTokensFrom(text, pos) ==
  LET m == NextMatch(ReDeserialize, text, pos) IN
  IF m = 0
  THEN IF pos <= Len(text) THEN <<TextNode(SubSeq(text, pos, Len(text)))>> ELSE << >>
  ELSE LET e == MatchEnd(ReDeserialize, text, m) IN
       (IF m > pos THEN <<TextNode(SubSeq(text, pos, m - 1))>> ELSE << >>)
       \o <<ShortcodeDiv(SubSeq(text, m, e), MatchName(ReDeserialize, text, m))>>
       \o ReplaceTokensFrom(text, e + 1)

RECURSIVE ReplaceNodes(_)
ReplaceNodes(nodes) ==
  IF nodes = << >> THEN << >>
  ELSE LET n == Head(nodes) IN
       (IF n.type = "text" /\ Has(n.text, "[") /\ Has(n.text, "]")
        THEN ReplaceTokensFrom(n.text, 1)
        ELSE <<n>>)
       \o ReplaceNodes(Tail(nodes))

\* deserializeShortcodes(html), for a tag-free markup source html; the result
\* is the node list whose markup the function returns
deserializeShortcodes(html) ==
  IF html = Empty THEN << >> ELSE ReplaceNodes(ParseNodes(html))

\* ---------------------------------------------------- serializeShortcodes
\* el.outerHTML = shortcodeText: the attribute value is parsed as markup
ReplaceOuterHTML(shortcodeText) == ParseNodes(shortcodeText)

RECURSIVE RestoreTokens(_)
RestoreTokens(nodes) ==
  IF nodes = << >> THEN << >>
  ELSE LET n == Head(nodes) IN
       (IF n.type = "block" /\ n.original # Empty
        THEN ReplaceOuterHTML(n.original)
        ELSE <<n>>)
       \o RestoreTokens(Tail(nodes))

\* serializeShortcodes(editor), given the nodes of editor.getHtml()
serializeShortcodes(nodes) == InnerHTML(RestoreTokens(nodes))

\* ------------------------------------------------------------ token builders
RECURSIVE Join(_)
\* Array.prototype.join(' ') over the non-empty fragments (after filter(Boolean))
Join(frags) ==
  IF frags = << >> THEN Empty
  ELSE IF Head(frags) = Empty THEN Join(Tail(frags))
  ELSE IF Join(Tail(frags)) = Empty THEN Head(frags)
  ELSE Head(frags) \o <<" ">> \o Join(Tail(frags))

RECURSIVE EscapeQuotes(_)
\* String(v).replace(/"/g, '\\"')
EscapeQuotes(v) ==
  IF v = Empty THEN Empty
  ELSE (IF Head(v) = "\"" THEN <<"\\", "\"">> ELSE <<Head(v)>>) \o EscapeQuotes(Tail(v))

\* `[${name} ${attrs}]` or `[${name}]`
Bracket(name, attrs) ==
  IF attrs = Empty THEN <<"[">> \o name \o <<"]">>
  ELSE <<"[">> \o name \o <<" ">> \o attrs \o <<"]">>

\* The fields of GET /admin/shortcodes/:name/config, in declared order; a
\* default of Empty is an absent default.  Names without an entry have no
\* config (404).
FieldA == [name |-> <<"a">>, default |-> <<"1">>]
ConfigNames == {<<"x">>}
ServerConfig(name) == IF name = <<"x">> THEN <<FieldA>> ELSE << >>
FieldNames == {<<"a">>}

\* the string values of the trait change handler
TraitAttrs(shortcodeName, traitDefs, vals) ==
  Join([k \in 1..Len(traitDefs) |->
          IF traitDefs[k] = <<"type">> /\ shortcodeName = <<"property">> THEN Empty
          ELSE IF vals[traitDefs[k]] = Empty THEN Empty
          ELSE traitDefs[k] \o <<"=", "\"">> \o EscapeQuotes(vals[traitDefs[k]])
               \o <<"\"">>])

\* the token the trait change handler rebuilds from the model's trait values
TraitToken(shortcodeName, traitDefs, vals) ==
  Bracket(shortcodeName, TraitAttrs(shortcodeName, traitDefs, vals))

\* `"${v}"` when /\s/.test(v), else v
valWithQuotes(v) ==
  IF \E j \in 1..Len(v) : v[j] \in Space THEN <<"\"">> \o v \o <<"\"">> ELSE v

\* the string attrs of component:add, from the config defaults
DefaultAttrs(fields) ==
  Join([k \in 1..Len(fields) |->
          IF fields[k].default = Empty THEN Empty
          ELSE fields[k].name \o <<"=">> \o valWithQuotes(fields[k].default)])

\* the token component:add builds from the config defaults
DefaultToken(shortcodeName, fields) == Bracket(shortcodeName, DefaultAttrs(fields))

RECURSIVE ModalAttrs(_)
\* the string attrs of the Apply handler of the config modal, from the
\* .shortcode-input elements [name, value] in document order
ModalAttrs(inputs) ==
  IF inputs = << >> THEN Empty
  ELSE (IF Trim(Head(inputs).value) = Empty THEN Empty
        ELSE <<" ">> \o Head(inputs).name \o <<"=">>
             \o valWithQuotes(Trim(Head(inputs).value)))
       \o ModalAttrs(Tail(inputs))

\* `[${name}${attrs}]` of the Apply handler
ModalToken(name, inputs) == <<"[">> \o name \o ModalAttrs(inputs) \o <<"]">>

\* ----------------------------------------------------------------- parseAttrs
RECURSIVE SkipSpace(_, _)
SkipSpace(s, i) == IF i <= Len(s) /\ s[i] \in Space THEN SkipSpace(s, i + 1) ELSE i

RECURSIVE FirstQuote(_, _)
FirstQuote(s, i) ==
  IF i > Len(s) THEN 0 ELSE IF s[i] = "\"" THEN i ELSE FirstQuote(s, i + 1)

RECURSIVE BareEnd(_, _)
\* last index of the run [^\s"]+ that starts at i (i-1: empty)
BareEnd(s, i) ==
  IF i <= Len(s) /\ s[i] \notin Space /\ s[i] # "\"" THEN BareEnd(s, i + 1) ELSE i - 1

\* the match of /(\w+)\s*=\s*"([^"]*)"|(\w+)\s*=\s*([^\s"]+)/ that starts at i:
\* [end, key, val], end = 0 when there is none
AttrMatch(s, i) ==
  LET n == RunEnd(s, i, WChars)
      e == SkipSpace(s, n + 1)
      v == SkipSpace(s, e + 1)
      none == [end |-> 0, key |-> Empty, val |-> Empty]
  IN IF n < i \/ e > Len(s) \/ s[e] # "=" THEN none
     ELSE IF v <= Len(s) /\ s[v] = "\"" /\ FirstQuote(s, v + 1) > 0
     THEN [end |-> FirstQuote(s, v + 1), key |-> SubSeq(s, i, n),
           val |-> SubSeq(s, v + 1, FirstQuote(s, v + 1) - 1)]
     ELSE IF BareEnd(s, v) >= v
     THEN [end |-> BareEnd(s, v), key |-> SubSeq(s, i, n), val |-> SubSeq(s, v, BareEnd(s, v))]
     ELSE none

RECURSIVE parseAttrsFrom(_, _)
\* the exec loop of parseAttrs: the [key, val] pairs in match order
parseAttrsFrom(s, i) ==
  IF i > Len(s) THEN << >>
  ELSE LET m == AttrMatch(s, i) IN
       IF m.end = 0 THEN parseAttrsFrom(s, i + 1)
       ELSE <<[key |-> m.key, val |-> m.val]>> \o parseAttrsFrom(s, m.end + 1)

parseAttrs(text) == parseAttrsFrom(text, 1)

\* result[key]: the value of the last pair with that key
HasKey(pairs, key) == \E k \in 1..Len(pairs) : pairs[k].key = key
Lookup(pairs, key) ==
  LET k == CHOOSE k \in 1..Len(pairs) :
             pairs[k].key = key /\ \A j \in (k + 1)..Len(pairs) : pairs[j].key # key
  IN pairs[k].val

RECURSIVE AttrTextFrom(_, _)
\* (shortcodeText.match(/\[([^\]]+)\]/) || [])[1] || ''
AttrTextFrom(s, i) ==
  IF i > Len(s) THEN Empty
  ELSE IF s[i] = "[" /\ FirstClose(s, i + 1) > i + 1
       THEN SubSeq(s, i + 1, FirstClose(s, i + 1) - 1)
       ELSE AttrTextFrom(s, i + 1)

AttrText(shortcodeText) == AttrTextFrom(shortcodeText, 1)

\* =================================================================== state
VARIABLES
  input,      \* text specification: the markup source T
  nodes,      \* text specification: the materialized nodes
  output,     \* text specification: the serialized markup source
  tpc,        \* text specification: "start", "materialized", "hydrated",
              \* "serialized" (unmodified tree) or "saved" (hydrated tree)
  mapping,    \* token specification: the ordered mapping, [name, value] fields
  built,      \* token specification: the builder used, its fragment and its token
  result,     \* token specification: parseAttrs of the fragment
  apc,        \* token specification: "start", "built", "parsed"
  tree,       \* the wrapper's children: text entries and block entries (by instance)
  cmp,        \* shortcode-block model per instance
  timers,     \* pending setTimeout timers; cur marks the one its closure's t names
  reqs,       \* the fetches in flight, in issue order
  issued,     \* the hydration requests debouncedRender has issued: [inst, gen, arg]
  rsl,        \* renderShortcodesOnLoad: pc and the tokens still to fetch
  sent,       \* the markup of the last save request
  isSaving,   \* the flag of savePageAsComponent
  sinceCall,  \* per placeholder: ms since its last debouncedRender call (capped at wait)
  lastCall,   \* per placeholder: the argument of its last debouncedRender call, and
              \* whether that call came less than wait ms after the one before (burst 2)
  uncaught,   \* exceptions that no handler caught
  budget      \* user events left

attrVars == <<mapping, built, result, apc>>
textVars == <<input, nodes, output, tpc, attrVars>>
editorVars == <<tree, cmp, timers, reqs, issued, rsl, sent, isSaving,
                sinceCall, lastCall, uncaught, budget>>
vars == <<input, nodes, output, tpc, mapping, built, result, apc, tree, cmp, timers, reqs, issued, rsl,
          sent, isSaving, sinceCall, lastCall, uncaught, budget>>

\* ------------------------------------------------------------------ bounds
\* shortcode-block instances the editor can hold
MaxInst == 2
\* user events (drop, select, trait edit, focusout, save) in one run
MaxEvents == 2
\* largest step of the clock, in ms
TickMs == 200

\* ------------------------------------------------------- program constants
\* debounce(fn, wait = 400) and the 400 passed in init()
wait == 400
\* setTimeout(..., 500) of the PAGE_HTML load block
LoadDelay == 500

Inst == 1..MaxInst
\* generations of an instance: the component the page load created, and the one
\* editor.setComponents(editor.getHtml()) replaces it by
Gens == {0, 1}
\* the placeholders: component models, each with its own init() and debouncedRender
Places == Inst \X Gens

\* ----------------------------------------------------------- component model
NoVals == [f \in FieldNames |-> Empty]
\* a slot that holds no component
Unused == [used |-> FALSE, gen |-> 0, name |-> Empty, original |-> Empty,
           components |-> NoContent, isRendered |-> FALSE, editable |-> TRUE,
           traits |-> << >>, vals |-> NoVals, listeners |-> << >>, handlers |-> << >>]
\* a shortcode-block component with the type's defaults and the given
\* attributes and content
NewBlock(name, original, inner) ==
  [Unused EXCEPT !.used = TRUE, !.name = name, !.original = original,
                 !.components = inner]

TextEntry(s) == [type |-> "text", text |-> s, id |-> 0]
BlockEntry(i) == [type |-> "block", text |-> Empty, id |-> i]

\* the instances of the blocks in the wrapper, in document order
RECURSIVE BlockIds(_)
BlockIds(tr) ==
  IF tr = << >> THEN << >>
  ELSE (IF Head(tr).type = "block" THEN <<Head(tr).id>> ELSE << >>) \o BlockIds(Tail(tr))

InTree(i) == \E k \in 1..Len(tree) : tree[k].type = "block" /\ tree[k].id = i

\* editor.getHtml(): the nodes of the component tree
GetHtml ==
  [k \in 1..Len(tree) |->
     IF tree[k].type = "text" THEN TextNode(tree[k].text)
     ELSE BlockNode(cmp[tree[k].id].name, cmp[tree[k].id].original,
                    cmp[tree[k].id].components)]

\* editor.setComponents(markup of ns): instance k for the k-th block
RECURSIVE CountBlocks(_)
CountBlocks(ns) ==
  IF ns = << >> THEN 0
  ELSE (IF Head(ns).type = "block" THEN 1 ELSE 0) + CountBlocks(Tail(ns))

TreeOf(ns) ==
  [k \in 1..Len(ns) |->
     IF ns[k].type = "text" THEN TextEntry(ns[k].text)
     ELSE BlockEntry(CountBlocks(SubSeq(ns, 1, k)))]

RECURSIVE BlocksOf(_)
BlocksOf(ns) ==
  IF ns = << >> THEN << >>
  ELSE (IF Head(ns).type = "block" THEN <<Head(ns)>> ELSE << >>) \o BlocksOf(Tail(ns))

ModelsOf(ns) ==
  [i \in Inst |->
     IF i <= Len(BlocksOf(ns))
     THEN NewBlock(BlocksOf(ns)[i].name, BlocksOf(ns)[i].original, BlocksOf(ns)[i].inner)
     ELSE Unused]

\* ----------------------------------------------------------------- debounce
\* The timer state a debounced call reads and writes.  The variable t of a
\* debounce closure is kept as the flag cur of the timers: cur holds of the
\* timer whose id the closure's t names.
TimerState == [timers |-> timers, since |-> sinceCall, last |-> lastCall]

\* a single debounce closure that every placeholder shares (not the code's)
SharedClosure(i, g) == <<1, 0>>

\* the debounce closure that debouncedRender of instance i, generation g, uses:
\* init() creates one per model
Closure(i, g) == <<i, g>>

NoClosure == <<0, 0>>

Timer(kind, cl, i, g, arg, rem) ==
  [kind |-> kind, closure |-> cl, inst |-> i, gen |-> g, arg |-> arg, rem |-> rem,
   cur |-> TRUE]

\* a debounce that leaves the earlier timer running (not the code's)
keepTimeout(tm, cl) == tm

\* clearTimeout(t) in closure cl: the timer that t names is removed
clearTimeout(tm, cl) == {x \in tm : ~(x.closure = cl /\ x.cur)}

\* t = setTimeout(...) in closure cl: t names the new timer only
setTimeout(tm, cl, x) ==
  {[y EXCEPT !.cur = y.cur /\ y.closure # cl] : y \in tm} \cup {x}

\* the function debounce returns, called with arg on instance i of generation g
debounce(D, i, g, arg) ==
  [D EXCEPT !.timers = setTimeout(clearTimeout(D.timers, Closure(i, g)), Closure(i, g),
                                  Timer("debounce", Closure(i, g), i, g, arg, wait)),
            !.since[<<i, g>>] = 0,
            !.last[<<i, g>>] = [arg |-> arg,
                                burst |-> IF D.since[<<i, g>>] < wait THEN 2 ELSE 1]]

RECURSIVE debounceAll(_, _, _)
\* debouncedRender(original) on each of the instances ids that has one, in order
debounceAll(D, c, ids) ==
  IF ids = << >> THEN D
  ELSE debounceAll(IF c[Head(ids)].original # Empty
                   THEN debounce(D, Head(ids), c[Head(ids)].gen, c[Head(ids)].original)
                   ELSE D,
                   c, Tail(ids))

SetTimerState(D) ==
  /\ timers' = D.timers
  /\ sinceCall' = D.since
  /\ lastCall' = D.last

Request(url, by, i, g, arg) ==
  [url |-> url, by |-> by, inst |-> i, gen |-> g, arg |-> arg]

\* the component a timer or a response acts on is still the one in the tree
Live(i, g) == cmp[i].used /\ cmp[i].gen = g /\ InTree(i)

\* ------------------------------------------------------------------- Init
\* the saved pages the editor is opened on (PAGE_HTML); Empty: a new page
TokX == <<"[", "x", "]">>
TokY == <<"[", "y", "]">>
Loose == <<"[", "3", ",", " ", "4", "]">>
Pages == {Empty, TokX \o <<" ">> \o TokY, Loose \o Loose \o <<" ">> \o TokX}

EditorInit(page) ==
  /\ tree = TreeOf(deserializeShortcodes(page))
  /\ cmp = ModelsOf(deserializeShortcodes(page))
  /\ timers = IF page = Empty THEN {}
              ELSE {Timer("load", NoClosure, 0, 0, Empty, LoadDelay)}
  /\ reqs = << >>
  /\ issued = {}
  /\ rsl = [pc |-> "wait", queue |-> << >>]
  /\ sent = [kind |-> "none", html |-> Empty]
  /\ isSaving = FALSE
  /\ sinceCall = [p \in Places |-> wait]
  /\ lastCall = [p \in Places |-> [arg |-> Empty, burst |-> 0]]
  /\ uncaught = 0
  /\ budget = MaxEvents

TextIdle ==
  /\ input = Empty
  /\ nodes = << >>
  /\ output = Empty
  /\ tpc = "start"

AttrIdle ==
  /\ mapping = << >>
  /\ built = [by |-> "none", attrs |-> Empty, token |-> Empty]
  /\ result = << >>
  /\ apc = "start"

Init == TextIdle /\ AttrIdle /\ \E page \in Pages : EditorInit(page)

\* ------------------------------------------------------- text specification
\* the symbols of the input texts: markup source without tags
TextAlphabet == {"[", "]", " ", "x", ":", "&lt;"}

RECURSIVE Texts(_)
\* the texts of at most n symbols
Texts(n) ==
  IF n = 0 THEN {Empty}
  ELSE Texts(n - 1) \cup {Append(s, c) : s \in {u \in Texts(n - 1) : Len(u) = n - 1},
                                          c \in TextAlphabet}

\* the scenarios the specification names
Scenarios ==
  { <<"Intro", " ", "[", "property", " ", "limit", "=", "3", "]", " ", "outro">>,
    <<"Value", " ", "[", "3", ",", " ", "4", "]">> }

TextInit ==
  /\ input \in Texts(MaxLen) \cup Scenarios
  /\ nodes = << >>
  /\ output = Empty
  /\ tpc = "start"
  /\ AttrIdle
  /\ EditorInit(Empty)

\* deserializeShortcodes(PAGE_HTML) and editor.setComponents of its result
Materialize ==
  /\ tpc = "start"
  /\ nodes' = deserializeShortcodes(input)
  /\ tpc' = "materialized"
  /\ UNCHANGED <<input, output>>
  /\ UNCHANGED attrVars
  /\ UNCHANGED editorVars

\* serializeShortcodes(editor): on the unmodified tree ("serialized"), or
\* after its placeholders were hydrated ("saved")
Serialize ==
  /\ tpc \in {"materialized", "hydrated"}
  /\ output' = serializeShortcodes(nodes)
  /\ tpc' = IF tpc = "materialized" THEN "serialized" ELSE "saved"
  /\ UNCHANGED <<input, nodes>>
  /\ UNCHANGED attrVars
  /\ UNCHANGED editorVars

\* ------------------------------------------------------ token specification
\* most fields of a mapping
MaxFields == 2

\* the shortcode whose token is built
SName == <<"x">>
AttrNames == {<<"limit">>, <<"title">>, <<"max", "-", "price">>}
AttrValues == {Empty, <<"3">>, <<"X">>, <<"Hello", " ", "World">>}

\* the ordered mappings of at most MaxFields fields with distinct names
Mappings ==
  {m \in UNION {[1..n -> [name : AttrNames, value : AttrValues]] : n \in 0..MaxFields} :
     \A j, k \in 1..Len(m) : j # k => m[j].name # m[k].name}

\* model.get(name) for the traits of mapping m
ValsOf(m) ==
  [n \in AttrNames |->
     IF \E k \in 1..Len(m) : m[k].name = n
     THEN m[CHOOSE k \in 1..Len(m) : m[k].name = n].value
     ELSE Empty]

Builders == {"trait", "modal", "add"}

\* the attribute fragment that builder b emits for mapping m
BuiltAttrs(b, m) ==
  CASE b = "trait" -> TraitAttrs(SName, [k \in 1..Len(m) |-> m[k].name], ValsOf(m))
    [] b = "modal" -> ModalAttrs(m)
    [] OTHER -> DefaultAttrs([k \in 1..Len(m) |-> [name |-> m[k].name,
                                                     default |-> m[k].value]])

\* the token that builder b emits for mapping m
BuiltToken(b, m) ==
  CASE b = "trait" -> TraitToken(SName, [k \in 1..Len(m) |-> m[k].name], ValsOf(m))
    [] b = "modal" -> ModalToken(SName, m)
    [] OTHER -> DefaultToken(SName, [k \in 1..Len(m) |-> [name |-> m[k].name,
                                                           default |-> m[k].value]])

AttrInit ==
  /\ mapping \in Mappings
  /\ built = [by |-> "none", attrs |-> Empty, token |-> Empty]
  /\ result = << >>
  /\ apc = "start"
  /\ TextIdle
  /\ EditorInit(Empty)

\* a token builder runs on the mapping
BuildToken(b) ==
  /\ apc = "start"
  /\ built' = [by |-> b, attrs |-> BuiltAttrs(b, mapping), token |-> BuiltToken(b, mapping)]
  /\ apc' = "built"
  /\ UNCHANGED <<mapping, result>>
  /\ UNCHANGED <<input, nodes, output, tpc>>
  /\ UNCHANGED editorVars

\* parseAttrs runs on the fragment
ParseToken ==
  /\ apc = "built"
  /\ result' = parseAttrs(built.attrs)
  /\ apc' = "parsed"
  /\ UNCHANGED <<mapping, built>>
  /\ UNCHANGED <<input, nodes, output, tpc>>
  /\ UNCHANGED editorVars

AttrNext == (\E b \in Builders : BuildToken(b)) \/ ParseToken

SpecAttrs == AttrInit /\ [][AttrNext]_vars

\* ------------------------------------------------------------------- clock
Min(a, b) == IF a < b THEN a ELSE b

MinRem == CHOOSE m \in {x.rem : x \in timers} : \A x \in timers : m <= x.rem

\* time passes, at most up to the next timer's expiry
Tick ==
  /\ timers # {} \/ \E p \in Places : sinceCall[p] < wait
  /\ \A x \in timers : x.rem > 0
  /\ LET d == IF timers = {} THEN TickMs ELSE Min(TickMs, MinRem) IN
       /\ timers' = {[x EXCEPT !.rem = x.rem - d] : x \in timers}
       /\ sinceCall' = [p \in Places |-> Min(wait, sinceCall[p] + d)]
  /\ UNCHANGED <<tree, cmp, reqs, issued, rsl, sent, isSaving, lastCall,
                 uncaught, budget>>
  /\ UNCHANGED textVars

\* ------------------------------------------------------------ page load
\* the setTimeout callback of the PAGE_HTML load block: debouncedRender on
\* every .shortcode-block of the wrapper that has a data-shortcode-original
LoadCallback(x) ==
  /\ x \in timers /\ x.kind = "load" /\ x.rem = 0
  /\ SetTimerState(debounceAll([TimerState EXCEPT !.timers = timers \ {x}], cmp,
                               BlockIds(tree)))
  /\ UNCHANGED <<tree, cmp, reqs, issued, rsl, sent, isSaving, uncaught, budget>>
  /\ UNCHANGED textVars

\* ------------------------------------------------------- debouncedRender
\* view.showLoading(shortcodeString)
showLoading(c, shortcodeString) == [c EXCEPT !.components = Loading(shortcodeString)]

\* The debounced function fires: it shows the loading state and issues
\* POST /shortcode/render with the argument of the call that set the timer.
RenderStart(x) ==
  /\ x \in timers /\ x.kind = "debounce" /\ x.rem = 0
  /\ timers' = timers \ {x}
  /\ cmp' = IF Live(x.inst, x.gen)
            THEN [cmp EXCEPT ![x.inst] = showLoading(cmp[x.inst], x.arg)]
            ELSE cmp
  /\ reqs' = Append(reqs, Request("render", "debounce", x.inst, x.gen, x.arg))
  /\ issued' = issued \cup {[inst |-> x.inst, gen |-> x.gen, arg |-> x.arg]}
  /\ UNCHANGED <<tree, rsl, sent, isSaving, sinceCall, lastCall, uncaught, budget>>
  /\ UNCHANGED textVars

Outcomes == {"ok", "empty", "fail"}

\* a debouncedRender without its catch block (not the code's)
RenderUncaught(c, shortcodeString, outcome) ==
  IF outcome = "fail" THEN c
  ELSE [c EXCEPT !.isRendered = TRUE,
                 !.components = IF outcome = "ok" THEN Rendered(shortcodeString)
                                ELSE NotFound(shortcodeString),
                 !.original = shortcodeString,
                 !.editable = FALSE]

\* the debounced function after fetchRenderedShortcode settles: "ok" (json.html
\* non-empty), "empty" (json.html empty) or "fail" (the fetch threw)
RenderSettled(c, shortcodeString, outcome) ==
  IF outcome = "fail"
  THEN [c EXCEPT !.components = ErrorLoading(shortcodeString)]
  ELSE [c EXCEPT !.isRendered = TRUE,
                 !.components = IF outcome = "ok" THEN Rendered(shortcodeString)
                                ELSE NotFound(shortcodeString),
                 !.original = shortcodeString,
                 !.editable = FALSE]

\* the block node n after debouncedRender(data-shortcode-original) has run on
\* its component and the request has settled with outcome
HydrateNode(n, outcome) ==
  LET c == RenderSettled(showLoading(NewBlock(n.name, n.original, n.inner), n.original),
                         n.original, outcome)
  IN BlockNode(c.name, c.original, c.components)

\* the load callback hydrates every placeholder of the materialized tree
Hydrate ==
  /\ tpc = "materialized"
  /\ \E k \in 1..Len(nodes) : nodes[k].type = "block"
  /\ \E f \in [1..Len(nodes) -> Outcomes] :
       nodes' = [k \in 1..Len(nodes) |->
                   IF nodes[k].type = "block" THEN HydrateNode(nodes[k], f[k])
                   ELSE nodes[k]]
  /\ tpc' = "hydrated"
  /\ UNCHANGED <<input, output>>
  /\ UNCHANGED attrVars
  /\ UNCHANGED editorVars

TextNext == Materialize \/ Hydrate \/ Serialize

SpecText == TextInit /\ [][TextNext]_vars

Pending(k, url, by) ==
  /\ k \in 1..Len(reqs)
  /\ reqs[k].url = url /\ reqs[k].by = by

\* the requests in flight once request k has settled
Settle(k) == SubSeq(reqs, 1, k - 1) \o SubSeq(reqs, k + 1, Len(reqs))

\* the response to a hydration request of debouncedRender arrives
RenderDone(k, outcome) ==
  /\ Pending(k, "render", "debounce")
  /\ reqs' = Settle(k)
  /\ cmp' = IF Live(reqs[k].inst, reqs[k].gen)
            THEN [cmp EXCEPT ![reqs[k].inst] =
                    RenderSettled(cmp[reqs[k].inst], reqs[k].arg, outcome)]
            ELSE cmp
  /\ UNCHANGED <<tree, timers, issued, rsl, sent, isSaving, sinceCall,
                 lastCall, uncaught, budget>>
  /\ UNCHANGED textVars

\* ------------------------------------------------------------------- save
\* savePageData(url): save, preview and publish
savePageData ==
  /\ budget > 0 /\ rsl.pc # "wait"
  /\ budget' = budget - 1
  /\ sent' = [kind |-> "page", html |-> serializeShortcodes(GetHtml)]
  /\ UNCHANGED <<tree, cmp, timers, reqs, issued, rsl, isSaving, sinceCall,
                 lastCall, uncaught>>
  /\ UNCHANGED textVars

\* a savePageAsComponent without its guard (not the code's)
neverRefused(saving) == FALSE

\* if (isSaving) return;
saveRefused(saving) == saving

\* The click on "save as component": savePageAsComponent(url) up to its fetch.
\* A call that returns at the guard returns undefined, and the click handler's
\* result.success then throws in its async function.
savePageAsComponent ==
  /\ budget > 0 /\ rsl.pc # "wait"
  /\ budget' = budget - 1
  /\ IF saveRefused(isSaving)
     THEN /\ uncaught' = uncaught + 1
          /\ UNCHANGED <<sent, isSaving, reqs>>
     ELSE /\ isSaving' = TRUE
          /\ sent' = [kind |-> "component", html |-> InnerHTML(GetHtml)]
          /\ reqs' = Append(reqs, Request("save", "component", 0, 0, InnerHTML(GetHtml)))
          /\ UNCHANGED uncaught
  /\ UNCHANGED <<tree, cmp, timers, issued, rsl, sinceCall, lastCall>>
  /\ UNCHANGED textVars

\* the fetch of savePageAsComponent settles, resolved (ok) or thrown: the
\* finally block runs in both cases
SaveComponentDone(k, ok) ==
  /\ Pending(k, "save", "component")
  /\ reqs' = Settle(k)
  /\ isSaving' = FALSE
  /\ UNCHANGED <<tree, cmp, timers, issued, rsl, sent, sinceCall,
                 lastCall, uncaught, budget>>
  /\ UNCHANGED textVars

\* ------------------------------------------------------- trait handlers
\* A component and the timer state, as one handler run reads and writes them.
Ctx(c, D) == [c |-> c, D |-> D]

\* the change handler that a selection attaches for one trait: a closure of
\* that selection, the sel-th one that wired the component
Handler(trait, traitDefs, shortcodeName, sel) ==
  [trait |-> trait, defs |-> traitDefs, sname |-> shortcodeName, sel |-> sel]

\* a change handler that stores the rebuilt token but does not render (not the code's)
storeOnly(S, i, h) ==
  Ctx([S.c EXCEPT !.original = TraitToken(h.sname, h.defs, S.c.vals)], S.D)

\* one run of a change handler on instance i: rebuild the token, store it in
\* data-shortcode-original, call debouncedRender with it
runHandler(S, i, h) ==
  LET shortcodeStr == TraitToken(h.sname, h.defs, S.c.vals) IN
  Ctx([S.c EXCEPT !.original = shortcodeStr],
      debounce(S.D, i, S.c.gen, shortcodeStr))

RECURSIVE runHandlers(_, _, _)
runHandlers(S, i, hs) ==
  IF hs = << >> THEN S ELSE runHandlers(runHandler(S, i, Head(hs)), i, Tail(hs))

\* a set that fires change:name also when the value stays the same (not the code's)
setAndFire(S, i, name, value) ==
  runHandlers(Ctx([S.c EXCEPT !.vals[name] = value], S.D), i,
              SelectSeq(S.c.listeners, LAMBDA h : h.trait = name))

\* model.set(name, value): a change:name event when the value changes
modelSet(S, i, name, value) ==
  IF S.c.vals[name] = value THEN S
  ELSE runHandlers(Ctx([S.c EXCEPT !.vals[name] = value], S.D), i,
                   SelectSeq(S.c.listeners, LAMBDA h : h.trait = name))

RECURSIVE seedTraits(_, _, _, _)
\* the trait values of a selection: the parsed attribute, else the default
seedTraits(S, i, fields, parsedAttrs) ==
  IF fields = << >> THEN S
  ELSE LET f == Head(fields) IN
       seedTraits(IF HasKey(parsedAttrs, f.name)
                  THEN modelSet(S, i, f.name, Lookup(parsedAttrs, f.name))
                  ELSE IF f.default # Empty
                  THEN modelSet(S, i, f.name, f.default)
                  ELSE S,
                  i, Tail(fields), parsedAttrs)

RECURSIVE removeOne(_, _)
\* model.off(event, handler): the listener list without that handler
removeOne(ls, h) ==
  IF ls = << >> THEN << >>
  ELSE IF Head(ls) = h THEN Tail(ls)
  ELSE <<Head(ls)>> \o removeOne(Tail(ls), h)

\* a selection that leaves the earlier handlers attached (not the code's)
keepAll(ls, hs) == ls

RECURSIVE removeAll(_, _)
\* the cleanup of the handlers a previous selection attached
removeAll(ls, hs) ==
  IF hs = << >> THEN ls ELSE removeAll(removeOne(ls, Head(hs)), Tail(hs))

FieldDefs(fields) == [k \in 1..Len(fields) |-> fields[k].name]

\* component:selected after its config fetch resolved, for the selection that
\* read shortcodeText
traitWiring(S, i, shortcodeText) ==
  LET shortcodeName == extractShortcodeName(shortcodeText)
      fields == ServerConfig(shortcodeName)
      traitDefs == FieldDefs(fields)
      S1 == seedTraits(Ctx([S.c EXCEPT !.traits = traitDefs], S.D), i, fields,
                       parseAttrs(AttrText(shortcodeText)))
      sel == IF S.c.handlers = << >> THEN 1 ELSE S.c.handlers[1].sel + 1
      hs == [k \in 1..Len(traitDefs) |->
               Handler(traitDefs[k], traitDefs, shortcodeName, sel)]
  IN Ctx([S1.c EXCEPT !.listeners = removeAll(S1.c.listeners, S1.c.handlers) \o hs,
                      !.handlers = hs],
         S1.D)

\* the text that component:selected reads from a component
selectedText(c) ==
  LET content == IF c.components.kind = "text" THEN Trim(c.components.str) ELSE Empty IN
  IF c.original # Empty THEN c.original
  ELSE IF c.name # Empty THEN c.name
  ELSE content

\* the requests that the component:selected handler issues for component c
selectedRequests(i, c) ==
  IF extractShortcodeName(selectedText(c)) = Empty THEN << >>
  ELSE <<Request("config", "selected", i, c.gen, selectedText(c))>>

\* the user selects a shortcode block
Select(i) ==
  /\ budget > 0 /\ rsl.pc # "wait"
  /\ cmp[i].used /\ InTree(i)
  /\ budget' = budget - 1
  /\ reqs' = reqs \o selectedRequests(i, cmp[i])
  /\ UNCHANGED <<tree, cmp, timers, issued, rsl, sent, isSaving, sinceCall,
                 lastCall, uncaught>>
  /\ UNCHANGED textVars

\* the config fetch of a selection settles
SelectedConfigDone(k, ok) ==
  /\ Pending(k, "config", "selected")
  /\ ok => extractShortcodeName(reqs[k].arg) \in ConfigNames
  /\ reqs' = Settle(k)
  /\ LET i == reqs[k].inst
         S == IF ok /\ Live(i, reqs[k].gen)
              THEN traitWiring(Ctx(cmp[i], TimerState), i, reqs[k].arg)
              ELSE Ctx(cmp[i], TimerState)
     IN /\ cmp' = [cmp EXCEPT ![i] = S.c]
        /\ SetTimerState(S.D)
  /\ UNCHANGED <<tree, issued, rsl, sent, isSaving, uncaught, budget>>
  /\ UNCHANGED textVars

\* the values a user gives a trait
TraitValues == {Empty, <<"1">>, <<"2">>}

\* the user edits a trait of a block in the Traits panel
TraitChange(i, name, value) ==
  /\ budget > 0 /\ rsl.pc # "wait"
  /\ cmp[i].used /\ InTree(i)
  /\ \E k \in 1..Len(cmp[i].traits) : cmp[i].traits[k] = name
  /\ cmp[i].vals[name] # value
  /\ budget' = budget - 1
  /\ LET S == modelSet(Ctx(cmp[i], TimerState), i, name, value) IN
       /\ cmp' = [cmp EXCEPT ![i] = S.c]
       /\ SetTimerState(S.D)
  /\ UNCHANGED <<tree, reqs, issued, rsl, sent, isSaving, uncaught>>
  /\ UNCHANGED textVars

\* ----------------------------------------------------------- component:add
\* the keys of the response of GET /admin/shortcodes/all
ServerKeys == {<<"x">>, <<"x", ":", "y">>}

\* registerShortcodeBlocks: the data-shortcode of the palette blocks that its
\* forEach over the entries of the response adds
registerShortcodeBlocks(data) == {key : key \in data}

\* the shortcode names of the palette
Keys == registerShortcodeBlocks(ServerKeys)

FreeInst == CHOOSE i \in Inst : ~cmp[i].used /\ \A j \in Inst : ~cmp[j].used => i <= j

\* the user drops the palette block of key onto the canvas: component:add runs
\* up to its config fetch
AddBlock(key) ==
  /\ budget > 0 /\ rsl.pc # "wait"
  /\ \E i \in Inst : ~cmp[i].used
  /\ budget' = budget - 1
  /\ LET i == FreeInst
         c == NewBlock(key, Empty, RawText(Bracket(key, Empty)))
         shortcodeName == IF c.name # Empty THEN c.name
                          ELSE extractShortcodeName(c.components.str)
     IN /\ tree' = Append(tree, BlockEntry(i))
        /\ cmp' = [cmp EXCEPT ![i] = c]
        /\ reqs' = IF shortcodeName = Empty THEN reqs
                   ELSE Append(reqs, Request("config", "add", i, 0, shortcodeName))
  /\ UNCHANGED <<timers, issued, rsl, sent, isSaving, sinceCall, lastCall,
                 uncaught>>
  /\ UNCHANGED textVars

\* the catch block of component:add
addFailed(c, shortcodeName) ==
  [c EXCEPT !.components = ErrorLoading(Bracket(shortcodeName, Empty))]

\* The config fetch of component:add settles.  Resolved: the handler builds
\* the default token, shows "Loading name...", stores the token, calls
\* debouncedRender and selects the block; its editor.trigger('component:selected',
\* { model: cmp }) then throws in the first listener (setupMedia calls
\* component.get on an object that has no get), so the catch block runs and the
\* trait refresh is not scheduled.  Rejected: the catch block runs.
AddConfigDone(k, ok) ==
  /\ Pending(k, "config", "add")
  /\ ok => reqs[k].arg \in ConfigNames
  /\ LET i == reqs[k].inst
         shortcodeName == reqs[k].arg
         shortcodeString == DefaultToken(shortcodeName, ServerConfig(shortcodeName))
         c1 == [cmp[i] EXCEPT !.components = Loading(shortcodeName),
                              !.original = shortcodeString]
     IN IF ~Live(i, reqs[k].gen)
        THEN /\ reqs' = Settle(k)
             /\ UNCHANGED <<cmp, timers, sinceCall, lastCall>>
        ELSE IF ok
        THEN /\ SetTimerState(debounce(TimerState, i, c1.gen, shortcodeString))
             /\ reqs' = Settle(k) \o selectedRequests(i, c1)
             /\ cmp' = [cmp EXCEPT ![i] = addFailed(c1, shortcodeName)]
        ELSE /\ reqs' = Settle(k)
             /\ cmp' = [cmp EXCEPT ![i] = addFailed(cmp[i], shortcodeName)]
             /\ UNCHANGED <<timers, sinceCall, lastCall>>
  /\ UNCHANGED <<tree, issued, rsl, sent, isSaving, uncaught, budget>>
  /\ UNCHANGED textVars

\* ------------------------------------------------------------- onFocusOut
\* what a user may have typed into an editable block
TypedTexts == {<<"Intro">>}

\* el.innerText of the block's view
ElementTexts(c) ==
  IF c.editable /\ c.components.kind = "text"
  THEN TypedTexts \cup {c.components.str}
  ELSE {InnerText(c.components)}

\* the focusout handler of a block whose element shows innerText
onFocusOut(i, innerText) ==
  /\ budget > 0 /\ rsl.pc # "wait"
  /\ cmp[i].used /\ InTree(i)
  /\ innerText \in ElementTexts(cmp[i])
  /\ budget' = budget - 1
  /\ LET content == Trim(innerText)
         c == [cmp[i] EXCEPT !.editable = FALSE]
     IN IF c.isRendered
        THEN /\ cmp' = [cmp EXCEPT ![i] = c]
             /\ UNCHANGED <<timers, sinceCall, lastCall>>
        ELSE IF extractShortcodeName(content) # Empty
        THEN /\ cmp' = [cmp EXCEPT ![i] = c]
             /\ SetTimerState(debounce(TimerState, i, c.gen, content))
        ELSE /\ cmp' = [cmp EXCEPT ![i] =
                          [c EXCEPT !.components =
                             RawText(<<"[", "your_shortcode_here", "]">>)]]
             /\ UNCHANGED <<timers, sinceCall, lastCall>>
  /\ UNCHANGED <<tree, reqs, issued, rsl, sent, isSaving, uncaught>>
  /\ UNCHANGED textVars

\* ------------------------------------------------- renderShortcodesOnLoad
\* the values of the text nodes of the canvas document, in document order
TextNodeValues ==
  [k \in 1..Len(tree) |->
     IF tree[k].type = "text" THEN tree[k].text
     ELSE InnerText(cmp[tree[k].id].components)]

\* the text nodes that hold a shortcode-like token
rslTargets ==
  SelectSeq(TextNodeValues,
            LAMBDA v : Trim(v) # Empty /\ NextMatch(ReOnLoad, Trim(v), 1) > 0)

RECURSIVE rslTokens(_)
\* the tokens the function fetches, in the order of its loops
rslTokens(targets) ==
  IF targets = << >> THEN << >>
  ELSE AllMatches(ReOnLoad, Head(targets), 1) \o rslTokens(Tail(targets))

\* editor 'load': renderShortcodesOnLoad runs up to its first fetch
EditorLoad ==
  /\ rsl.pc = "wait"
  /\ IF rslTargets = << >>
     THEN /\ rsl' = [pc |-> "done", queue |-> << >>]
          /\ UNCHANGED reqs
     ELSE /\ rsl' = [pc |-> "run", queue |-> rslTokens(rslTargets)]
          /\ reqs' = Append(reqs, Request("render", "onload", 0, 0,
                                          Head(rslTokens(rslTargets))))
  /\ UNCHANGED <<tree, cmp, timers, issued, sent, isSaving, sinceCall,
                 lastCall, uncaught, budget>>
  /\ UNCHANGED textVars

\* editor.setComponents(editor.getHtml()): every block of the wrapper becomes
\* a new component with the same attributes and content; timers and requests
\* of the replaced components keep running on the replaced components
resync(c) == [NewBlock(c.name, c.original, c.components) EXCEPT !.gen = c.gen + 1]

\* A fetch of renderShortcodesOnLoad settles (its catch turns a failure into
\* the error fragment of the wrapper it builds in the canvas document); the
\* next token is fetched, and after the last one the components are reset.
\* The wrappers are built in the canvas document only, and the reset rebuilds
\* that document from the component tree.
RslDone(k, outcome) ==
  /\ Pending(k, "render", "onload")
  /\ rsl.pc = "run"
  /\ IF Tail(rsl.queue) # << >>
     THEN /\ rsl' = [rsl EXCEPT !.queue = Tail(rsl.queue)]
          /\ reqs' = Append(Settle(k), Request("render", "onload", 0, 0,
                                               Head(Tail(rsl.queue))))
          /\ UNCHANGED cmp
     ELSE /\ rsl' = [pc |-> "done", queue |-> << >>]
          /\ reqs' = Settle(k)
          /\ cmp' = [i \in Inst |-> IF InTree(i) THEN resync(cmp[i]) ELSE cmp[i]]
  /\ UNCHANGED <<tree, timers, issued, sent, isSaving, sinceCall, lastCall,
                 uncaught, budget>>
  /\ UNCHANGED textVars

\* ------------------------------------------------------------------- Next
Next ==
  \/ Tick
  \/ \E x \in timers : LoadCallback(x)
  \/ \E x \in timers : RenderStart(x)
  \/ \E k \in 1..Len(reqs), o \in Outcomes : RenderDone(k, o)
  \/ \E k \in 1..Len(reqs), o \in Outcomes : RslDone(k, o)
  \/ \E k \in 1..Len(reqs), ok \in BOOLEAN : AddConfigDone(k, ok)
  \/ \E k \in 1..Len(reqs), ok \in BOOLEAN : SelectedConfigDone(k, ok)
  \/ EditorLoad
  \/ \E key \in Keys : AddBlock(key)
  \/ \E i \in Inst : Select(i)
  \/ \E i \in Inst, name \in FieldNames, value \in TraitValues : TraitChange(i, name, value)
  \/ \E i \in Inst, txt \in UNION {ElementTexts(cmp[j]) : j \in Inst} : onFocusOut(i, txt)
  \/ savePageData
  \/ savePageAsComponent
  \/ \E k \in 1..Len(reqs), ok \in BOOLEAN : SaveComponentDone(k, ok)

Spec == Init /\ [][Next]_vars

\* ================================================================= claims
\* the debounce timers of placeholder p
TimersOf(p) == {x \in timers : x.kind = "debounce" /\ <<x.inst, x.gen>> = p}

\* the hydration requests issued so far for placeholder p
IssuedFor(p) == {r \in issued : <<r.inst, r.gen>> = p}

\* the symbols of loading, rendered and error markup
FragmentSyms == {"<div gray>", "<div red>", "<rendered>", "</rendered>"}

\* nothing is scheduled and no request is in flight
Quiet == timers = {} /\ reqs = << >> /\ rsl.pc = "done"

\* C1: the HTML that savePageData transmits holds no loading, rendered or error
\* markup of any placeholder, whatever state the placeholder is in.
C1_SavedPageHasNoFragment ==
  sent.kind = "page" => \A k \in 1..Len(sent.html) : sent.html[k] \notin FragmentSyms

\* C2: the response to a hydration request for a token that the placeholder
\* has since replaced by another (a later debouncedRender call carries the
\* placeholder's present token) does not change the placeholder's content.
C2_StaleResponseDiscarded ==
  [][\A k \in 1..Len(reqs), o \in Outcomes :
       (/\ RenderDone(k, o)
        /\ Live(reqs[k].inst, reqs[k].gen)
        /\ lastCall[<<reqs[k].inst, reqs[k].gen>>].arg # reqs[k].arg
        /\ cmp[reqs[k].inst].original = lastCall[<<reqs[k].inst, reqs[k].gen>>].arg)
       => cmp'[reqs[k].inst].components = cmp[reqs[k].inst].components]_vars

\* C3: every save operation (savePageData, savePageAsComponent) transmits the
\* markup in which the placeholders are converted back to bracket-token text.
C3_EverySaveSerializes ==
  [][(savePageData \/ (savePageAsComponent /\ ~isSaving))
       => sent'.html = serializeShortcodes(GetHtml)]_vars

\* C4: the hydration request of a placeholder is issued wait ms after the
\* last debouncedRender call on it, carries that call's token string, and is
\* the only one the calls of the window lead to (no other timer is left).
C4_OneRequestForLastCall ==
  [][\A x \in timers :
       RenderStart(x) =>
         /\ x.arg = lastCall[<<x.inst, x.gen>>].arg
         /\ sinceCall[<<x.inst, x.gen>>] = wait
         /\ TimersOf(<<x.inst, x.gen>>) = {x}
         /\ \E k \in 1..Len(reqs') : reqs'[k] = Request("render", "debounce", x.inst, x.gen,
                                                        lastCall[<<x.inst, x.gen>>].arg)]_vars

\* C4 happens: two calls on one placeholder less than wait ms apart, and the
\* one request issued for it carries the last call's token
C4_Witness ==
  \E p \in Places :
    /\ lastCall[p].burst = 2
    /\ TimersOf(p) = {}
    /\ IssuedFor(p) = {[inst |-> p[1], gen |-> p[2], arg |-> lastCall[p].arg]}

\* C5: a failed hydration request turns the placeholder's content into
\* 'Error loading {tokenString}', raises nothing to the caller, and leaves the
\* other placeholders, their timers and their requests as they are; a failed
\* fetch of renderShortcodesOnLoad is followed by the fetch of the next token.
C5_FailureIsLocal ==
  [][\A k \in 1..Len(reqs) :
       /\ (RenderDone(k, "fail") /\ Live(reqs[k].inst, reqs[k].gen)) =>
            /\ cmp'[reqs[k].inst].components = ErrorLoading(reqs[k].arg)
            /\ \A j \in Inst \ {reqs[k].inst} : cmp'[j] = cmp[j]
            /\ timers' = timers
            /\ reqs' = Settle(k)
            /\ uncaught' = uncaught
       /\ (RslDone(k, "fail") /\ Tail(rsl.queue) # << >>) =>
            /\ \E j \in 1..Len(reqs') :
                 reqs'[j] = Request("render", "onload", 0, 0, Head(Tail(rsl.queue)))
            /\ timers' = timers
            /\ uncaught' = uncaught]_vars

\* C5 happens: one placeholder shows the error fragment of its token after a
\* failed hydration, and another placeholder has been hydrated
C5_Witness ==
  \E i, j \in Inst :
    /\ i # j /\ InTree(i) /\ InTree(j)
    /\ cmp[i].original # Empty
    /\ cmp[i].components = ErrorLoading(cmp[i].original)
    /\ cmp[j].isRendered
    /\ uncaught = 0

\* C6: after a rejected hydration request the placeholder shows the error
\* fragment of the token and its isRendered flag is true.
C6_RejectedIsRendered ==
  [][\A k \in 1..Len(reqs) :
       (RenderDone(k, "fail") /\ Live(reqs[k].inst, reqs[k].gen)) =>
         /\ cmp'[reqs[k].inst].components = ErrorLoading(reqs[k].arg)
         /\ cmp'[reqs[k].inst].isRendered]_vars

\* C7: when the config fetch of component:add fails, hydration of the added
\* block is still under way: debouncedRender has been called or its request
\* has been issued.
C7_ConfigFailureStillHydrates ==
  [][\A k \in 1..Len(reqs) :
       (AddConfigDone(k, FALSE) /\ Live(reqs[k].inst, reqs[k].gen)) =>
         \/ \E x \in timers' : x.kind = "debounce" /\ x.inst = reqs[k].inst
         \/ \E r \in issued' : r.inst = reqs[k].inst]_vars

\* C8: a pending debouncedRender call of a placeholder goes away only by
\* firing or by a later call on the same placeholder, and is never postponed;
\* the page-load callback leaves one pending call per placeholder with a token.
C8_DebouncePerPlaceholder ==
  [][/\ \A x \in timers :
          x.kind = "debounce" =>
            \/ RenderStart(x)
            \/ \E y \in timers' : /\ y.kind = "debounce"
                                  /\ y.inst = x.inst /\ y.gen = x.gen
                                  /\ \/ y.arg = x.arg /\ y.rem <= x.rem
                                     \/ y.rem = wait /\ sinceCall'[<<x.inst, x.gen>>] = 0
     /\ \A x \in timers :
          LoadCallback(x) =>
            \A i \in Inst :
              (InTree(i) /\ cmp[i].original # Empty) =>
                \E y \in timers' : /\ y.kind = "debounce" /\ y.inst = i
                                   /\ y.gen = cmp[i].gen /\ y.rem = wait
                                   /\ y.arg = cmp[i].original]_vars

\* C8 happens: the hydration requests of two placeholders are in flight together
C8_Witness ==
  \E k, l \in 1..Len(reqs) :
    /\ reqs[k].by = "debounce" /\ reqs[l].by = "debounce"
    /\ reqs[k].inst # reqs[l].inst

\* C9: once the page load has come to rest, every placeholder of a token of
\* the page has had a hydration request and no longer shows 'Loading'.
C9_LoadedTokensLeaveLoading ==
  Quiet =>
    \A i \in Inst :
      (cmp[i].used /\ InTree(i) /\ cmp[i].original # Empty) =>
        /\ \E r \in issued : r.inst = i
        /\ cmp[i].components.kind # "loading"

\* name satisfies the name grammar [A-Za-z0-9_-]+
ValidName(name) == name # Empty /\ \A k \in 1..Len(name) : name[k] \in WordChars

\* the name in the URL of config request r
ConfigName(r) == IF r.by = "add" THEN r.arg ELSE extractShortcodeName(r.arg)

\* C12: every request to /admin/shortcodes/:name/config carries a name that
\* satisfies the name grammar [A-Za-z0-9_-]+.
C12_ConfigFetchHasValidName ==
  \A k \in 1..Len(reqs) : reqs[k].url = "config" => ValidName(ConfigName(reqs[k]))

\* C13: the data-shortcode of every block that came from the palette
\* satisfies the name grammar (no block is registered for another key).
C13_PaletteNamesAreValid ==
  \A i \in Inst : (cmp[i].used /\ cmp[i].name # Empty) => ValidName(cmp[i].name)

\* C14: no hydration request is made for bracketed text whose name part fails
\* the name grammar, such as '[3, 4]': every POST /shortcode/render carries
\* text in which extractShortcodeName finds a token.
C14_NoRequestForNonToken ==
  \A k \in 1..Len(reqs) :
    reqs[k].url = "render" => extractShortcodeName(reqs[k].arg) # Empty

\* C15: a token that extractShortcodeName accepts, persisted as the text of a
\* page, is materialized by deserializeShortcodes as one placeholder of that token.
C15_AcceptedTokenIsMaterialized ==
  (/\ tpc = "materialized"
   /\ extractShortcodeName(Decode(input)) # Empty
   /\ MatchEnd(ReExtract, Decode(input), 1) = Len(input))
  => nodes = <<ShortcodeDiv(Decode(input), extractShortcodeName(Decode(input)))>>

\* C16: the token a trait change rebuilds holds, for each field of the config,
\* the edited value when it is non-empty, else the field's declared default,
\* and no attribute of that name only when neither exists.
C16_RebuildFallsBackToDefault ==
  [][\A i \in Inst, name \in FieldNames, value \in TraitValues :
       (TraitChange(i, name, value) /\ cmp[i].listeners # << >>) =>
         LET fields == ServerConfig(extractShortcodeName(cmp'[i].original))
             parsed == parseAttrs(AttrText(cmp'[i].original))
         IN \A k \in 1..Len(fields) :
              LET v == cmp'[i].vals[fields[k].name]
                  expected == IF v # Empty THEN v ELSE fields[k].default
              IN IF expected = Empty THEN ~HasKey(parsed, fields[k].name)
                 ELSE /\ HasKey(parsed, fields[k].name)
                      /\ Lookup(parsed, fields[k].name) = expected]_vars

\* mapping has no empty value
AllSet(m) == \A k \in 1..Len(m) : m[k].value # Empty

\* C17: parseAttrs of the fragment the trait-change handler emits for a
\* mapping of names to non-empty values without double quotes is that mapping.
C17_ParseInvertsBuild ==
  (apc = "parsed" /\ built.by = "trait" /\ AllSet(mapping)) =>
    /\ Len(result) = Len(mapping)
    /\ \A k \in 1..Len(mapping) :
         /\ HasKey(result, mapping[k].name)
         /\ Lookup(result, mapping[k].name) = mapping[k].value

\* key=value without quotes, key="value" when the value holds whitespace,
\* nothing for an empty value: the serialization the specification states
QuotedIffSpace(m) ==
  Join([k \in 1..Len(m) |->
          IF m[k].value = Empty THEN Empty
          ELSE m[k].name \o <<"=">>
               \o (IF \E j \in 1..Len(m[k].value) : m[k].value[j] \in Space
                   THEN <<"\"">> \o m[k].value \o <<"\"">>
                   ELSE m[k].value)])

\* C18: every token builder emits key="value" when the value holds
\* whitespace and key=value when it does not.
C18_QuotesOnlyForWhitespace ==
  apc = "built" => built.token = Bracket(SName, QuotedIffSpace(mapping))

RECURSIVE Contains(_, _)
\* s holds the run of symbols u
Contains(s, u) ==
  IF Len(s) < Len(u) THEN FALSE
  ELSE SubSeq(s, 1, Len(u)) = u \/ Contains(Tail(s), u)

\* C19: in every token builder a field with an empty value gives no fragment
\* of its name, and {limit: "", title: "X"} gives exactly title=X.
C19_EmptyValueOmitted ==
  apc = "built" =>
    /\ \A k \in 1..Len(mapping) :
         mapping[k].value = Empty => ~Contains(built.attrs, mapping[k].name \o <<"=">>)
    /\ mapping = <<[name |-> <<"limit">>, value |-> Empty],
                   [name |-> <<"title">>, value |-> <<"X">>]>>
         => Trim(built.attrs) = <<"title", "=", "X">>

RECURSIVE Flatten(_)
\* the text of a node list: text nodes by their text, placeholders by their
\* data-shortcode-original
Flatten(ns) ==
  IF ns = << >> THEN Empty
  ELSE (IF Head(ns).type = "text" THEN Head(ns).text ELSE Head(ns).original)
       \o Flatten(Tail(ns))

\* C20: the nodes deserializeShortcodes yields are, in order, the spans of
\* the text: every placeholder carries exactly one token that its first ']'
\* ends, no text node holds a token, and text and tokens together are the
\* original text.
C20_TokensBecomePlaceholdersInOrder ==
  tpc = "materialized" =>
    /\ Flatten(nodes) = Decode(input)
    /\ \A k \in 1..Len(nodes) :
         IF nodes[k].type = "block"
         THEN /\ MatchEnd(ReDeserialize, nodes[k].original, 1) = Len(nodes[k].original)
              /\ FirstClose(nodes[k].original, 1) = Len(nodes[k].original)
              /\ nodes[k].inner = Loading(MatchName(ReDeserialize, nodes[k].original, 1))
         ELSE /\ nodes[k].text # Empty
              /\ NextMatch(ReDeserialize, nodes[k].text, 1) = 0

\* C20 happens: text with an unclosed '[', a placeholder, and text after it
C20_Witness ==
  /\ tpc = "materialized"
  /\ \E j, k, l \in 1..Len(nodes) :
       /\ j < k /\ k < l
       /\ nodes[j].type = "text" /\ Has(nodes[j].text, "[")
       /\ nodes[k].type = "block"
       /\ nodes[l].type = "text"

\* the tokens that scanning the markup source html finds
ScannedTokens(html) ==
  {deserializeShortcodes(html)[k].original :
     k \in {j \in 1..Len(deserializeShortcodes(html)) :
              deserializeShortcodes(html)[j].type = "block"}}

\* C11: scanning the serialized output of a materialized and hydrated tree
\* finds the same tokens as scanning the original text, whatever the outcome
\* of each hydration was.
C11_RescanFindsSameTokens ==
  tpc = "saved" => ScannedTokens(output) = ScannedTokens(input)

\* C10: serializeShortcodes of the unmodified result of deserializeShortcodes
\* of a text without placeholder markup is that text.
C10_RoundTrip == tpc = "serialized" => output = input

\* C21: a trait change on a wired block stores the token rebuilt from the
\* present trait values in data-shortcode-original and calls debouncedRender
\* with it; and the token of the last debouncedRender call of a placeholder is
\* either due in a timer exactly wait ms after that call or has been requested.
C21_TraitChangeRehydrates ==
  /\ [][\A i \in Inst, name \in FieldNames, value \in TraitValues :
          TraitChange(i, name, value) =>
            LET tok == TraitToken(extractShortcodeName(cmp[i].original), cmp[i].traits,
                                  [cmp[i].vals EXCEPT ![name] = value])
            IN /\ cmp'[i].original = tok
               /\ \E x \in timers' : /\ x.kind = "debounce" /\ x.cur
                                      /\ <<x.inst, x.gen>> = <<i, cmp[i].gen>>
                                      /\ x.arg = tok /\ x.rem = wait]_vars
  /\ [](\A p \in Places :
          lastCall[p].burst > 0 =>
            \/ \E x \in TimersOf(p) : x.arg = lastCall[p].arg /\ x.rem = wait - sinceCall[p]
            \/ [inst |-> p[1], gen |-> p[2], arg |-> lastCall[p].arg] \in issued)

\* C21 happens: the token of a trait edit, which differs from the token the
\* block was selected with, has been requested
C21_Witness ==
  \E i \in Inst :
    /\ cmp[i].used /\ InTree(i) /\ cmp[i].handlers # << >>
    /\ lastCall[<<i, cmp[i].gen>>].arg = TraitToken(cmp[i].handlers[1].sname, cmp[i].traits,
                                                   cmp[i].vals)
    /\ cmp[i].vals[<<"a">>] = <<"2">>
    /\ [inst |-> i, gen |-> cmp[i].gen, arg |-> lastCall[<<i, cmp[i].gen>>].arg] \in issued

\* C22: the code paths that turn the tokens of the loaded text into
\* placeholder nodes (deserializeShortcodes, renderShortcodesOnLoad) send no
\* request: every request comes from a debouncedRender call or from a
\* selection or drop of the user.
C22_MaterializationSendsNothing ==
  \A k \in 1..Len(reqs) : reqs[k].by # "onload"

\* the data-shortcode-original of block i is the token its change handlers
\* build from its present trait values: a trait edit has stored it
Edited(i) ==
  /\ cmp[i].used /\ InTree(i) /\ cmp[i].handlers # << >>
  /\ cmp[i].original = TraitToken(cmp[i].handlers[1].sname, cmp[i].traits, cmp[i].vals)

\* C23: the token that a trait edit stored in data-shortcode-original stays
\* there through every step that is not a trait edit of that block; no
\* response to a hydration request replaces it.
C23_EditedTokenIsKept ==
  [][\A i \in Inst :
       (/\ Edited(i)
        /\ ~(\E name \in FieldNames, value \in TraitValues : TraitChange(i, name, value)))
       => cmp'[i].original = cmp[i].original]_vars

\* C24: when component:add selects the block it added (the selection's config
\* request goes out), the response to the block's hydration request has been
\* applied to the block.
C24_SelectedAfterRender ==
  [][\A k \in 1..Len(reqs) :
       (/\ AddConfigDone(k, TRUE)
        /\ \E j \in 1..Len(reqs') : reqs'[j].by = "selected" /\ reqs'[j].inst = reqs[k].inst)
       => /\ cmp'[reqs[k].inst].isRendered
          /\ \E r \in issued' : r.inst = reqs[k].inst]_vars

\* C25: a block has exactly one change listener per trait, however often it
\* was selected, and a trait change made wait ms or more after the last
\* debouncedRender call of the block is one debouncedRender call (not a burst).
C25_OneHandlerPerTrait ==
  /\ [](\A i \in Inst :
          cmp[i].used =>
            \A n \in 1..Len(cmp[i].traits) :
              Len(SelectSeq(cmp[i].listeners,
                            LAMBDA h : h.trait = cmp[i].traits[n])) = 1)
  /\ [][\A i \in Inst, name \in FieldNames, value \in TraitValues :
          (TraitChange(i, name, value) /\ sinceCall[<<i, cmp[i].gen>>] = wait)
          => lastCall'[<<i, cmp[i].gen>>].burst = 1]_vars

\* C25 happens: a block that two selections have wired
C25_Witness ==
  \E i \in Inst :
    /\ cmp[i].used /\ InTree(i)
    /\ cmp[i].handlers # << >> /\ cmp[i].handlers[1].sel = 2
    /\ Len(cmp[i].listeners) = Len(cmp[i].traits)

\* C26: when the config fetch of a dropped palette block has resolved, the
\* block does not show the 'Error loading [name]' fragment, and the timer of
\* the delayed trait refresh has been set.
C26_AddedBlockShowsNoError ==
  [][\A k \in 1..Len(reqs) :
       (AddConfigDone(k, TRUE) /\ Live(reqs[k].inst, reqs[k].gen))
       => /\ cmp'[reqs[k].inst].components.kind # "error"
          /\ \E x \in timers' : x.kind = "refresh" /\ x.inst = reqs[k].inst]_vars

\* the value that a selection which read shortcodeText gives field f of component c
SeedOf(c, f, shortcodeText) ==
  IF HasKey(parseAttrs(AttrText(shortcodeText)), f.name)
  THEN Lookup(parseAttrs(AttrText(shortcodeText)), f.name)
  ELSE IF f.default # Empty THEN f.default
  ELSE c.vals[f.name]

\* no trait of component c has a value other than the one shortcodeText gives
\* it: no change handler is attached, or no value was edited
Unedited(c, shortcodeText) ==
  \/ c.listeners = << >>
  \/ \A n \in 1..Len(ServerConfig(extractShortcodeName(shortcodeText))) :
       LET f == ServerConfig(extractShortcodeName(shortcodeText))[n] IN
       c.vals[f.name] = SeedOf(c, f, shortcodeText)

\* C27: a selection of a block whose trait values were not edited sets no
\* timer, sends no hydration request and leaves data-shortcode-original and
\* the content of every block as they are; when its config fetch resolves,
\* the block's traits are the config's fields and each trait value is the
\* attribute parsed from the token, else the field's default.
C27_SelectionOnlySeedsTraits ==
  [][/\ \A i \in Inst :
          Select(i) =>
            /\ cmp' = cmp /\ timers' = timers /\ issued' = issued
            /\ \A j \in 1..Len(reqs') : j > Len(reqs) => reqs'[j].url = "config"
     /\ \A k \in 1..Len(reqs), ok \in BOOLEAN :
          (SelectedConfigDone(k, ok) /\ Unedited(cmp[reqs[k].inst], reqs[k].arg)) =>
            LET i == reqs[k].inst
                fields == ServerConfig(extractShortcodeName(reqs[k].arg))
            IN /\ timers' = timers /\ issued' = issued /\ reqs' = Settle(k)
               /\ \A j \in Inst :
                    /\ cmp'[j].original = cmp[j].original
                    /\ cmp'[j].components = cmp[j].components
                    /\ cmp'[j].isRendered = cmp[j].isRendered
               /\ (ok /\ Live(i, reqs[k].gen)) =>
                    /\ cmp'[i].traits = FieldDefs(fields)
                    /\ \A n \in 1..Len(fields) :
                         cmp'[i].vals[fields[n].name] = SeedOf(cmp[i], fields[n], reqs[k].arg)]_vars

\* C27 happens: a hydrated block of the page was wired by two selections and
\* still holds the token and the markup of the page load
C27_Witness ==
  \E i \in Inst :
    /\ cmp[i].used /\ InTree(i)
    /\ cmp[i].handlers # << >> /\ cmp[i].handlers[1].sel = 2
    /\ cmp[i].original = TokX /\ cmp[i].components = Rendered(TokX)
    /\ cmp[i].vals[<<"a">>] = <<"1">>
    /\ IssuedFor(<<i, cmp[i].gen>>) = {[inst |-> i, gen |-> cmp[i].gen, arg |-> TokX]}

\* the save requests of savePageAsComponent in flight
SavesInFlight == {k \in 1..Len(reqs) : reqs[k].url = "save"}

\* C28: at most one request of savePageAsComponent is in flight, and isSaving
\* holds exactly while one is; a call made while isSaving is true sends
\* nothing; and isSaving is false after the request of a call settles,
\* resolved or thrown.
C28_OneSaveInFlight ==
  /\ [](/\ Cardinality(SavesInFlight) <= 1
        /\ isSaving <=> SavesInFlight # {})
  /\ [][(savePageAsComponent /\ isSaving) => (reqs' = reqs /\ sent' = sent)]_vars
  /\ [][\A k \in 1..Len(reqs), ok \in BOOLEAN :
          SaveComponentDone(k, ok) => ~isSaving']_vars

\* C28 happens: a call was made while a save was in flight, and that save has
\* settled
C28_Witness ==
  /\ uncaught > 0
  /\ sent.kind = "component"
  /\ ~isSaving /\ SavesInFlight = {}

\* C29: the isRendered flag of the placeholder at a place of the page, once
\* true, is true in every later state, and a focusout on a placeholder whose
\* flag is true sets no timer and leaves the placeholder's content as it is.
C29_RenderedStaysRendered ==
  [][/\ \A i \in Inst :
          (cmp[i].used /\ InTree(i) /\ cmp[i].isRendered) => cmp'[i].isRendered
     /\ \A i \in Inst :
          \A txt \in ElementTexts(cmp[i]) :
          (onFocusOut(i, txt) /\ cmp[i].isRendered) =>
            /\ timers' = timers /\ reqs' = reqs
            /\ cmp'[i].components = cmp[i].components]_vars

\* the text a block is reset to
ResetText == <<"[", "your_shortcode_here", "]">>

\* C30: a focusout on a block that is not rendered makes it non-editable; when
\* the trimmed text holds a token, debouncedRender is called with that text;
\* when it holds none, the content becomes '[your_shortcode_here]' and no timer
\* is set; and a focusout on a block whose content is that reset text sets no
\* timer either.
C30_FocusOutOfUnrendered ==
  [][\A i \in Inst :
       \A txt \in ElementTexts(cmp[i]) :
         (onFocusOut(i, txt) /\ ~cmp[i].isRendered) =>
           /\ ~cmp'[i].editable
           /\ IF extractShortcodeName(Trim(txt)) # Empty
              THEN \E x \in timers' : /\ x.kind = "debounce" /\ x.cur
                                      /\ <<x.inst, x.gen>> = <<i, cmp[i].gen>>
                                      /\ x.arg = Trim(txt) /\ x.rem = wait
              ELSE /\ cmp'[i].components = RawText(ResetText)
                   /\ timers' = timers
           /\ (cmp[i].components = RawText(ResetText) /\ txt = ResetText)
                => (timers' = timers /\ reqs' = reqs)]_vars

====
